---------------------------- MODULE Spec2Model ----------------------------
(***************************************************************************)
(* A model of the kiriri sensor bridge.                                    *)
(*                                                                         *)
(*   src/kiriri_bridge.py  BLESensorService: the connection supervisor     *)
(*                         (scan, connect, discover, subscribe, wait,      *)
(*                         backoff), its keepalive and monitor tasks and   *)
(*                         stop().  Specification Spec (FairSpec adds the  *)
(*                         scheduling fairness of the event loop).         *)
(*                         NotifySpec adds handle_notification.            *)
(*   src/bridge_server.py  handle_data (the frame parser and the latest    *)
(*                         reading), send_data_to_clients (the broadcast   *)
(*                         loop) and websocket_handler (attach/detach).    *)
(*                         Specification HubSpec (HubFairSpec adds the     *)
(*                         fairness of the event loop); ParserSpec is      *)
(*                         handle_data alone, on a set of payloads.        *)
(*                                                                         *)
(* Every await of the source is a point where another task may run, so an  *)
(* action is the code between two awaits.  The radio stack (bleak) and the *)
(* websocket transport are the environment: the outcome of each awaited    *)
(* call is a nondeterministic choice.                                      *)
(***************************************************************************)
EXTENDS Integers, Sequences, FiniteSets, TLC

(***************************************************************************)
(* Bounds of the model.                                                    *)
(***************************************************************************)
\* run() is followed for at most this many returns of connect_and_run.
MaxCycles == 4
\* stop() is called at most this many times.
MaxStops == 2
\* At most this many notifications are parsed into a reading.
MaxParsed == 3
\* The supervisor's handle_notification is called at most this many times.
MaxNotifications == 2
\* Clients dropped while connected that are followed at a time.
MaxOtherSessions == 1

(***************************************************************************)
(* Exact rational arithmetic for the float delays of BLEConfig: a delay is *)
(* <<numerator, denominator>> in lowest terms.  The products and           *)
(* comparisons of run() are exact on these values, as they are on the      *)
(* binary floats of the default configuration (5.0 * 1.5^k).               *)
(***************************************************************************)
RECURSIVE GCD(_, _)
GCD(a, b) == IF b = 0 THEN a ELSE GCD(b, a % b)

Rat(n, d) == LET g == GCD(n, d) IN <<n \div g, d \div g>>

RMul(a, b) == Rat(a[1] * b[1], a[2] * b[2])

RLess(a, b) == a[1] * b[2] < b[1] * a[2]

\* Python's min(a, b): b only when b < a.
RMin(a, b) == IF RLess(b, a) THEN b ELSE a

RECURSIVE RPow(_, _)
RPow(a, k) == IF k = 0 THEN <<1, 1>> ELSE RMul(a, RPow(a, k - 1))

(***************************************************************************)
(* BLEConfig: the configurations the supervisor is run under.              *)
(***************************************************************************)
ReconnectDelays == {Rat(1, 1), Rat(2, 1)}
BackoffFactors == {Rat(3, 2), Rat(2, 1)}
MaxReconnectDelays == {Rat(1, 1), Rat(5, 1)}
\* -1 is "no cap" (the default).
MaxReconnectAttempts == {-1, 1, 2, 3}

\* Every delay policy without a cap and with keepalive (with the ceiling at
\* 1 the first product is at or above it whatever the factor is, so one
\* factor stands for both), every positive cap with and without keepalive
\* under one delay policy (the cap is read by run() only and the keepalive
\* setting by send_keepalive only), and one policy whose factor shrinks the
\* delay.
BLEConfig ==
    {c \in [reconnect_delay : ReconnectDelays,
            reconnect_backoff_factor : BackoffFactors,
            max_reconnect_delay : MaxReconnectDelays,
            max_reconnect_attempts : {-1},
            keepalive_enabled : {TRUE}] :
        c.max_reconnect_delay = Rat(1, 1)
            => c.reconnect_backoff_factor = Rat(2, 1)}
    \cup
    [reconnect_delay : {Rat(1, 1)},
     reconnect_backoff_factor : {Rat(2, 1)},
     max_reconnect_delay : {Rat(5, 1)},
     max_reconnect_attempts : MaxReconnectAttempts \ {-1},
     keepalive_enabled : BOOLEAN]
    \cup
    [reconnect_delay : {Rat(2, 1)},
     reconnect_backoff_factor : {Rat(1, 2)},
     max_reconnect_delay : {Rat(5, 1)},
     max_reconnect_attempts : {-1},
     keepalive_enabled : {TRUE}]

ConnectionState ==
    {"DISCONNECTED", "SCANNING", "CONNECTING", "DISCOVERING", "CONNECTED",
     "RECONNECTING", "ERROR"}

VARIABLES
    config,           \* self.config
    state,            \* self.state
    client,           \* self.client: "none", or a BleakClient "closed" / "open"
    subscribed,       \* start_notify succeeded on self.client and the link is up
    should_stop,      \* self.should_stop
    tasks,            \* self.tasks: the monitor and keepalive tasks
    stats,            \* self.stats counters
    pc,               \* where run() is suspended
    scan_attempt,     \* scan_for_device: attempt of range(3)
    reconnect_count,  \* run(): reconnect_count
    reconnect_delay,  \* run(): reconnect_delay
    cycle_log,        \* history: the events of the current connect_and_run cycle
    stop_calls,       \* history: calls of stop() so far
    stop_in_backoff,  \* history: stop() was called during the backoff sleep
    interrupted,      \* history: a KeyboardInterrupt ended the loop of run()
    other_sessions,   \* connected BleakClients that self.client no longer
                      \* references
    other_subscribed, \* those of them on which start_notify had succeeded
    stop_pc           \* where stop() is suspended: "idle", or in the
                      \* disconnect() of "client" (the one self.client
                      \* references) or of a client dropped since
                      \* ("dropped_subscribed", "dropped_silent" while it is
                      \* connected, "dropped_closed")

otherVars == <<other_sessions, other_subscribed, stop_pc>>

supVars == <<config, state, client, subscribed, should_stop, tasks, stats, pc,
             scan_attempt, reconnect_count, reconnect_delay, cycle_log,
             stop_calls, stop_in_backoff, interrupted, otherVars>>

VARIABLES
    latest_angles,       \* the global latest reading {"id", "y", "x"}
    connected_clients,   \* the global set of attached consumers
    new_data_available,  \* the asyncio.Event: set or not
    hub,                 \* where send_data_to_clients is, and its locals
    conn,                \* each consumer's websocket and websocket_handler
    ble,                 \* where ble_connect_and_notify is
    parsed,              \* history: number of successful parses so far
    received,            \* history: the last message each consumer got
    drain,               \* history: the current (or last) broadcast
    notification         \* history (parser specification): the payload
                         \* handle_data was last called with

hubVars == <<latest_angles, connected_clients, new_data_available, hub, conn,
             ble, parsed, received, drain, notification>>

vars == <<supVars, hubVars>>

NoTasks == [monitor |-> "none", keepalive |-> "none"]

SupInit ==
    /\ config \in BLEConfig
    /\ state = "DISCONNECTED"
    /\ client = "none"
    /\ subscribed = FALSE
    /\ should_stop = FALSE
    /\ tasks = NoTasks
    /\ stats = [total_disconnections |-> 0, total_data_received |-> 0]
    /\ pc = "loop"
    /\ scan_attempt = 0
    /\ reconnect_count = 0
    /\ reconnect_delay = config.reconnect_delay
    /\ cycle_log = <<>>
    /\ stop_calls = 0
    /\ stop_in_backoff = FALSE
    /\ interrupted = FALSE
    /\ other_sessions = 0
    /\ other_subscribed = 0
    /\ stop_pc = "idle"

(***************************************************************************)
(* Helpers of the supervisor.                                              *)
(***************************************************************************)
\* run(): "while not self.should_stop".
LoopContinues == ~should_stop

\* A cap test without "max_reconnect_attempts > 0".
CapReachedUnsigned(count) == count >= config.max_reconnect_attempts

\* A cap test that allows one attempt more ("count > max").
CapReachedLate(count) ==
    /\ config.max_reconnect_attempts > 0
    /\ count > config.max_reconnect_attempts

\* run(): the cap test after reconnect_count += 1.
CapReached(count) ==
    /\ config.max_reconnect_attempts > 0
    /\ count >= config.max_reconnect_attempts

\* A backoff step that starts over from the base delay at the ceiling.
BackoffWrapsAround(delay) ==
    IF RLess(config.max_reconnect_delay, RMul(delay, config.reconnect_backoff_factor))
    THEN config.reconnect_delay
    ELSE RMul(delay, config.reconnect_backoff_factor)

\* A backoff step without the ceiling.
BackoffNoCeiling(delay) == RMul(delay, config.reconnect_backoff_factor)

\* run(): the backoff step after the sleep.
BackoffNext(delay) ==
    RMin(RMul(delay, config.reconnect_backoff_factor), config.max_reconnect_delay)

\* run(): connect_and_run returned False (it returns nothing else):
\* count the failure, then stop at the cap or sleep reconnect_delay.
CycleFailed ==
    /\ reconnect_count' = reconnect_count + 1
    /\ pc' = IF CapReached(reconnect_count + 1) THEN "done" ELSE "backoff"

\* task.cancel() on every task of self.tasks.
Cancelled(ts) ==
    [t \in DOMAIN ts |->
        IF ts[t] \in {"running", "sleeping", "writing"} THEN "cancelled"
                                                       ELSE ts[t]]

\* _on_disconnect, the disconnected_callback of the client.
OnDisconnectStats == [stats EXCEPT !.total_disconnections = @ + 1]

\* A client.disconnect() called by the program has returned: the link is
\* down; whether the backend called the disconnected_callback is the
\* backend's choice (cb).  (A disconnect() that raises leaves the link up.)
StateAfterDisconnect(cb, s) == IF cb THEN "DISCONNECTED" ELSE s
StatsAfterDisconnect(cb) == IF cb THEN OnDisconnectStats ELSE stats

\* connect_and_run(), after a failed discovery or subscription: "if
\* self.client and self.client.is_connected: await self.client.disconnect()"
\* suspends run() in disconnect(); with the client not connected "return
\* False" follows at once.
StartRelease ==
    IF client = "open"
      THEN /\ pc' = "release"
           /\ UNCHANGED reconnect_count
      ELSE CycleFailed

\* The event loop runs one task at a time: another task or a callback runs
\* only while run() is suspended in an await.
AtAwait == pc # "enter"

(***************************************************************************)
(* run() and connect_and_run().                                            *)
(***************************************************************************)
\* run(): the loop test; "if reconnect_count > 0: _set_state(RECONNECTING)".
RunIterate ==
    /\ pc = "loop"
    /\ LoopContinues
    /\ reconnect_count < MaxCycles
    /\ state' = IF reconnect_count > 0 THEN "RECONNECTING" ELSE state
    /\ cycle_log' = <<>>
    /\ pc' = "enter"
    /\ UNCHANGED <<config, interrupted, client, subscribed, should_stop, tasks,
                   stats, scan_attempt, reconnect_count, reconnect_delay,
                   stop_calls, stop_in_backoff>>
    /\ UNCHANGED <<otherVars, hubVars>>

\* run(): the loop ends because should_stop is set.
RunExit ==
    /\ pc = "loop"
    /\ ~LoopContinues
    /\ pc' = "done"
    /\ UNCHANGED <<config, interrupted, state, client, subscribed, should_stop,
                   tasks, stats, scan_attempt, reconnect_count,
                   reconnect_delay, cycle_log, stop_calls, stop_in_backoff>>
    /\ UNCHANGED <<otherVars, hubVars>>

\* scan_for_device(): _set_state(SCANNING), first find_device_by_filter.
ScanStart ==
    /\ pc = "enter"
    /\ state' = "SCANNING"
    /\ scan_attempt' = 0
    /\ pc' = "scan"
    /\ UNCHANGED <<config, interrupted, client, subscribed, should_stop, tasks,
                   stats, reconnect_count, reconnect_delay, cycle_log,
                   stop_calls, stop_in_backoff>>
    /\ UNCHANGED <<otherVars, hubVars>>

\* establish_connection(): "self.client = None", then the new BleakClient is
\* created and connect() is awaited.  A client dropped while it is connected
\* stays a session that nothing references; a stop() suspended in the
\* disconnect() of the dropped client goes on with that client.
DropOldClient(connected) ==
    /\ other_sessions' = other_sessions + (IF connected THEN 1 ELSE 0)
    /\ other_subscribed' =
           other_subscribed + (IF connected /\ subscribed THEN 1 ELSE 0)
    /\ stop_pc' = IF stop_pc # "client" THEN stop_pc
                  ELSE IF ~connected THEN "dropped_closed"
                  ELSE IF subscribed THEN "dropped_subscribed"
                  ELSE "dropped_silent"
    /\ client' = "closed"
    /\ subscribed' = FALSE
    /\ pc' = "connect"

\* scan_for_device() found the device; establish_connection():
\* _set_state(CONNECTING); a previous client that is connected is
\* disconnected first (run() is suspended in its disconnect()), otherwise
\* it is dropped and connect() is awaited on a new client.
ScanFound ==
    /\ pc = "scan"
    /\ scan_attempt' = 0
    /\ state' = "CONNECTING"
    /\ IF client = "open"
         THEN /\ pc' = "old_disconnect"
              /\ UNCHANGED <<client, subscribed, otherVars>>
         ELSE DropOldClient(FALSE)
    /\ UNCHANGED <<config, interrupted, should_stop, tasks, stats,
                   reconnect_count, reconnect_delay, cycle_log, stop_calls,
                   stop_in_backoff>>
    /\ UNCHANGED hubVars

\* establish_connection(): the disconnect() of the previous client
\* returned (the link is down); the client is dropped and connect() is
\* awaited on a new one.
OldDisconnectDone ==
    /\ pc = "old_disconnect"
    /\ \E cb \in BOOLEAN :
         /\ state' = StateAfterDisconnect(cb /\ client = "open", state)
         /\ stats' = StatsAfterDisconnect(cb /\ client = "open")
    /\ DropOldClient(FALSE)
    /\ UNCHANGED <<config, interrupted, should_stop, tasks, scan_attempt,
                   reconnect_count, reconnect_delay, cycle_log, stop_calls,
                   stop_in_backoff>>
    /\ UNCHANGED hubVars

\* establish_connection(): the disconnect() of the previous client raised
\* with the link still up; "except: pass", the client is dropped all the
\* same and connect() is awaited on a new one.
OldDisconnectRaises ==
    /\ pc = "old_disconnect"
    /\ client = "open"
    /\ other_sessions < MaxOtherSessions
    /\ DropOldClient(TRUE)
    /\ UNCHANGED <<config, interrupted, state, should_stop, tasks, stats,
                   scan_attempt, reconnect_count, reconnect_delay, cycle_log,
                   stop_calls, stop_in_backoff>>
    /\ UNCHANGED hubVars

\* scan_for_device(): no device within scan_timeout; sleep and try again,
\* None after the third attempt (the attempt counter is local to the call).
ScanMiss ==
    /\ pc = "scan"
    /\ IF scan_attempt + 1 < 3
         THEN /\ scan_attempt' = scan_attempt + 1
              /\ UNCHANGED <<pc, reconnect_count>>
         ELSE /\ scan_attempt' = 0
              /\ CycleFailed
    /\ UNCHANGED <<config, interrupted, state, client, subscribed, should_stop,
                   tasks, stats, reconnect_delay, cycle_log, stop_calls,
                   stop_in_backoff>>
    /\ UNCHANGED <<otherVars, hubVars>>

\* scan_for_device(): the scanner raised; None is returned.
ScanError ==
    /\ pc = "scan"
    /\ scan_attempt' = 0
    /\ CycleFailed
    /\ UNCHANGED <<config, interrupted, state, client, subscribed, should_stop,
                   tasks, stats, reconnect_delay, cycle_log, stop_calls,
                   stop_in_backoff>>
    /\ UNCHANGED <<otherVars, hubVars>>

\* The backend completes connect() with the link up.  run() is resumed in a
\* later turn of the event loop: until then the link may drop again (the
\* backend calls _on_disconnect) and other tasks may run.
ConnectReturns ==
    /\ pc = "connect"
    /\ client' = "open"
    /\ pc' = "connect_done"
    /\ UNCHANGED <<config, interrupted, state, subscribed, should_stop, tasks,
                   stats, scan_attempt, reconnect_count, reconnect_delay,
                   cycle_log, stop_calls, stop_in_backoff>>
    /\ UNCHANGED <<otherVars, hubVars>>

\* establish_connection() is resumed after connect(): "if not
\* self.client.is_connected: return False" finds the client connected; the
\* stabilising sleep is awaited.
ConnectOk ==
    /\ pc = "connect_done"
    /\ client = "open"
    /\ pc' = "stabilize"
    /\ UNCHANGED <<config, interrupted, state, client, subscribed, should_stop,
                   tasks, stats, scan_attempt, reconnect_count,
                   reconnect_delay, cycle_log, stop_calls, stop_in_backoff>>
    /\ UNCHANGED <<otherVars, hubVars>>

\* establish_connection() is resumed after connect(): the client is no
\* longer connected (the link dropped, or stop() disconnected it, since
\* connect() completed); False is returned.
ConnectDropped ==
    /\ pc = "connect_done"
    /\ client # "open"
    /\ CycleFailed
    /\ UNCHANGED <<config, interrupted, state, client, subscribed, should_stop,
                   tasks, stats, scan_attempt, reconnect_delay, cycle_log,
                   stop_calls, stop_in_backoff>>
    /\ UNCHANGED <<otherVars, hubVars>>

\* establish_connection(): connect() raised, timed out or returned with the
\* client not connected; False is returned.
ConnectFail ==
    /\ pc = "connect"
    /\ CycleFailed
    /\ UNCHANGED <<config, interrupted, state, client, subscribed, should_stop,
                   tasks, stats, scan_attempt, reconnect_delay, cycle_log,
                   stop_calls, stop_in_backoff>>
    /\ UNCHANGED <<otherVars, hubVars>>

\* establish_connection(): the stabilising sleep and pair() are over, True
\* is returned; discover_services(): _set_state(DISCOVERING), get_services.
EstablishDone ==
    /\ pc = "stabilize"
    /\ state' = "DISCOVERING"
    /\ pc' = "discover"
    /\ UNCHANGED <<config, interrupted, client, subscribed, should_stop, tasks,
                   stats, scan_attempt, reconnect_count, reconnect_delay,
                   cycle_log, stop_calls, stop_in_backoff>>
    /\ UNCHANGED <<otherVars, hubVars>>

\* discover_services(): both characteristics found; setup_notifications():
\* start_notify is awaited.
DiscoverOk ==
    /\ pc = "discover"
    /\ client = "open"
    /\ pc' = "subscribe"
    /\ UNCHANGED <<config, interrupted, state, client, subscribed, should_stop,
                   tasks, stats, scan_attempt, reconnect_count,
                   reconnect_delay, cycle_log, stop_calls, stop_in_backoff>>
    /\ UNCHANGED <<otherVars, hubVars>>

\* discover_services(): the write or the notify characteristic is missing,
\* or get_services raised (it does when the link is down).
DiscoverFail ==
    /\ pc = "discover"
    /\ StartRelease
    /\ cycle_log' = Append(cycle_log, "discover_fail")
    /\ UNCHANGED <<config, interrupted, state, client, subscribed, should_stop,
                   tasks, stats, scan_attempt, reconnect_delay, stop_calls,
                   stop_in_backoff>>
    /\ UNCHANGED <<otherVars, hubVars>>

\* setup_notifications(): start_notify succeeded; sleep, then the start
\* command is written.
SubscribeOk ==
    /\ pc = "subscribe"
    /\ client = "open"
    /\ subscribed' = TRUE
    /\ cycle_log' = Append(cycle_log, "subscribe_ok")
    /\ pc' = "startcmd"
    /\ UNCHANGED <<config, interrupted, state, client, should_stop, tasks,
                   stats, scan_attempt, reconnect_count, reconnect_delay,
                   stop_calls, stop_in_backoff>>
    /\ UNCHANGED <<otherVars, hubVars>>

\* A setup_notifications() that swallows the failure of start_notify and
\* goes on to write the start command.
SubscribeFailStillWrites ==
    /\ pc = "subscribe"
    /\ cycle_log' = cycle_log \o <<"subscribe_fail", "start_cmd">>
    /\ pc' = "startcmd"
    /\ UNCHANGED <<config, interrupted, state, client, subscribed, should_stop,
                   tasks, stats, scan_attempt, reconnect_count,
                   reconnect_delay, stop_calls, stop_in_backoff>>
    /\ UNCHANGED <<otherVars, hubVars>>

\* setup_notifications(): start_notify raised; False is returned.
SubscribeFail ==
    /\ pc = "subscribe"
    /\ StartRelease
    /\ cycle_log' = Append(cycle_log, "subscribe_fail")
    /\ UNCHANGED <<config, interrupted, state, client, subscribed, should_stop,
                   tasks, stats, scan_attempt, reconnect_delay, stop_calls,
                   stop_in_backoff>>
    /\ UNCHANGED <<otherVars, hubVars>>

\* setup_notifications(): the start command was written, True is returned;
\* connect_and_run(): _set_state(CONNECTED), the monitor and keepalive tasks
\* are created and disconnected_future is awaited.  Nothing between the
\* write and _set_state(CONNECTED) tests is_connected: when the link dropped
\* while the write was completing (_on_disconnect has run), the state goes
\* from DISCONNECTED to CONNECTED with the client not connected.
StartCmdOk ==
    /\ pc = "startcmd"
    /\ cycle_log' = cycle_log \o <<"start_cmd", "connected">>
    /\ state' = "CONNECTED"
    /\ tasks' = [monitor |-> "running", keepalive |-> "running"]
    /\ pc' = "wait"
    /\ UNCHANGED <<config, interrupted, client, subscribed, should_stop, stats,
                   scan_attempt, reconnect_count, reconnect_delay, stop_calls,
                   stop_in_backoff>>
    /\ UNCHANGED <<otherVars, hubVars>>

\* setup_notifications(): writing the start command raised; False is
\* returned.
StartCmdFail ==
    /\ pc = "startcmd"
    /\ StartRelease
    /\ cycle_log' = Append(cycle_log, "start_cmd_fail")
    /\ UNCHANGED <<config, interrupted, state, client, subscribed, should_stop,
                   tasks, stats, scan_attempt, reconnect_delay, stop_calls,
                   stop_in_backoff>>
    /\ UNCHANGED <<otherVars, hubVars>>

\* connect_and_run(): the disconnect() after a failed discovery or
\* subscription returned (the link is down); "return False".
ReleaseDone ==
    /\ pc = "release"
    /\ \E cb \in BOOLEAN :
         /\ state' = StateAfterDisconnect(cb /\ client = "open", state)
         /\ stats' = StatsAfterDisconnect(cb /\ client = "open")
    /\ client' = IF client = "open" THEN "closed" ELSE client
    /\ subscribed' = FALSE
    /\ CycleFailed
    /\ UNCHANGED <<config, interrupted, should_stop, tasks, scan_attempt,
                   reconnect_delay, cycle_log, stop_calls, stop_in_backoff>>
    /\ UNCHANGED <<otherVars, hubVars>>

\* connect_and_run(): that disconnect() raised with the link still up; the
\* "except Exception" of connect_and_run logs it and returns False, the
\* client stays connected.
ReleaseRaises ==
    /\ pc = "release"
    /\ client = "open"
    /\ CycleFailed
    /\ UNCHANGED <<config, interrupted, state, client, subscribed, should_stop,
                   tasks, stats, scan_attempt, reconnect_delay, cycle_log,
                   stop_calls, stop_in_backoff>>
    /\ UNCHANGED <<otherVars, hubVars>>

\* connect_and_run(): disconnected_future is done because the link is down;
\* the tasks are cancelled and False is returned.
WaitDone ==
    /\ pc = "wait"
    /\ client # "open"
    /\ tasks' = Cancelled(tasks)
    /\ CycleFailed
    /\ UNCHANGED <<config, interrupted, state, client, subscribed, should_stop,
                   stats, scan_attempt, reconnect_delay, cycle_log, stop_calls,
                   stop_in_backoff>>
    /\ UNCHANGED <<otherVars, hubVars>>

\* connect_and_run(): awaiting disconnected_future raised ("except: pass")
\* while the link is up; the tasks are cancelled and False is returned, the
\* client is left as it is.
WaitRaises ==
    /\ pc = "wait"
    /\ client = "open"
    /\ tasks' = Cancelled(tasks)
    /\ CycleFailed
    /\ UNCHANGED <<config, interrupted, state, client, subscribed, should_stop,
                   stats, scan_attempt, reconnect_delay, cycle_log, stop_calls,
                   stop_in_backoff>>
    /\ UNCHANGED <<otherVars, hubVars>>

\* run(): the backoff sleep is over; the delay grows up to the ceiling.
BackoffDone ==
    /\ pc = "backoff"
    /\ reconnect_delay' = BackoffNext(reconnect_delay)
    /\ pc' = "loop"
    /\ UNCHANGED <<config, interrupted, state, client, subscribed, should_stop,
                   tasks, stats, scan_attempt, reconnect_count, cycle_log,
                   stop_calls, stop_in_backoff>>
    /\ UNCHANGED <<otherVars, hubVars>>

\* The positions of run() where an exception of the awaited call that is
\* no Exception (a KeyboardInterrupt) passes every handler below run():
\* scan_for_device, establish_connection, discover_services,
\* setup_notifications and connect_and_run catch Exception only, and the
\* backoff sleep is in run() itself.  (In "old_disconnect" and "wait" the
\* await is inside a bare "except: pass": the exception is swallowed, which
\* is OldDisconnectRaises or OldDisconnectDone and WaitRaises or WaitDone.
\* In "connect_done" the awaited connect() has returned.)
Interruptible ==
    {"scan", "connect", "stabilize", "discover", "subscribe", "startcmd",
     "release", "backoff"}

\* run(): "except KeyboardInterrupt: break".  The interrupt is raised where
\* run() is suspended; the loop is left at once, with should_stop, the
\* state, the client and the counters as they are (main() calls stop()
\* afterwards).
RunInterrupted ==
    /\ pc \in Interruptible
    /\ pc' = "done"
    /\ interrupted' = TRUE
    /\ scan_attempt' = 0
    /\ UNCHANGED <<config, state, client, subscribed, should_stop, tasks,
                   stats, reconnect_count, reconnect_delay, cycle_log,
                   stop_calls, stop_in_backoff>>
    /\ UNCHANGED <<otherVars, hubVars>>

RunStep ==
    \/ RunIterate \/ RunExit \/ ScanStart \/ ScanFound \/ ScanMiss \/ ScanError
    \/ OldDisconnectDone \/ OldDisconnectRaises
    \/ ConnectReturns \/ ConnectOk \/ ConnectDropped \/ ConnectFail
    \/ EstablishDone \/ DiscoverOk \/ DiscoverFail
    \/ SubscribeOk \/ SubscribeFail \/ StartCmdOk \/ StartCmdFail
    \/ ReleaseDone \/ ReleaseRaises
    \/ WaitDone \/ BackoffDone

(***************************************************************************)
(* The radio link, the keepalive and monitor tasks, stop().                *)
(***************************************************************************)
\* The device drops the link: the client is no longer connected and the
\* backend calls _on_disconnect.
LinkLost ==
    /\ AtAwait
    /\ client = "open"
    /\ client' = "closed"
    /\ subscribed' = FALSE
    /\ state' = "DISCONNECTED"
    /\ stats' = OnDisconnectStats
    /\ UNCHANGED <<config, interrupted, should_stop, tasks, pc, scan_attempt,
                   reconnect_count, reconnect_delay, cycle_log, stop_calls,
                   stop_in_backoff>>
    /\ UNCHANGED <<otherVars, hubVars>>

\* send_keepalive(): the test of its while loop.
KeepaliveLoop ==
    /\ ~should_stop
    /\ client = "open"

\* send_keepalive(), first run of the task ("running": created, not run
\* yet): it returns when keepalive is disabled or the loop test fails, and
\* is suspended in asyncio.sleep(keepalive_interval) otherwise.
KeepaliveStart ==
    /\ AtAwait
    /\ tasks.keepalive = "running"
    /\ tasks' = [tasks EXCEPT !.keepalive =
                    IF config.keepalive_enabled /\ KeepaliveLoop
                      THEN "sleeping" ELSE "done"]
    /\ UNCHANGED <<config, interrupted, state, client, subscribed, should_stop,
                   stats, pc, scan_attempt, reconnect_count, reconnect_delay,
                   cycle_log, stop_calls, stop_in_backoff>>
    /\ UNCHANGED <<otherVars, hubVars>>

\* send_keepalive(): the sleep is over.  With the client connected the
\* task is suspended in write_gatt_char; otherwise the loop test, which
\* asks for a connected client, fails and the task returns.
KeepaliveWake ==
    /\ AtAwait
    /\ tasks.keepalive = "sleeping"
    /\ tasks' = [tasks EXCEPT !.keepalive =
                    IF client = "open" THEN "writing" ELSE "done"]
    /\ UNCHANGED <<config, interrupted, state, client, subscribed, should_stop,
                   stats, pc, scan_attempt, reconnect_count, reconnect_delay,
                   cycle_log, stop_calls, stop_in_backoff>>
    /\ UNCHANGED <<otherVars, hubVars>>

\* send_keepalive(): the keepalive write returned; the loop test sends the
\* task back to its sleep or ends it.
KeepaliveWritten ==
    /\ AtAwait
    /\ tasks.keepalive = "writing"
    /\ tasks' = [tasks EXCEPT !.keepalive =
                    IF KeepaliveLoop THEN "sleeping" ELSE "done"]
    /\ UNCHANGED <<config, interrupted, state, client, subscribed, should_stop,
                   stats, pc, scan_attempt, reconnect_count, reconnect_delay,
                   cycle_log, stop_calls, stop_in_backoff>>
    /\ UNCHANGED <<otherVars, hubVars>>

\* send_keepalive(): the keepalive write raised, with the link still up or
\* after it dropped during the write; the error is logged and the task
\* ends ("break").  Nothing else is done.
KeepaliveFail ==
    /\ AtAwait
    /\ tasks.keepalive = "writing"
    /\ tasks' = [tasks EXCEPT !.keepalive = "failed"]
    /\ UNCHANGED <<config, interrupted, state, client, subscribed, should_stop,
                   stats, pc, scan_attempt, reconnect_count, reconnect_delay,
                   cycle_log, stop_calls, stop_in_backoff>>
    /\ UNCHANGED <<otherVars, hubVars>>

\* monitor_connection(): the loop test fails; the task returns.
MonitorExit ==
    /\ AtAwait
    /\ tasks.monitor = "running"
    /\ (should_stop \/ client # "open")
    /\ tasks' = [tasks EXCEPT !.monitor = "done"]
    /\ UNCHANGED <<config, interrupted, state, client, subscribed, should_stop,
                   stats, pc, scan_attempt, reconnect_count, reconnect_delay,
                   cycle_log, stop_calls, stop_in_backoff>>
    /\ UNCHANGED <<otherVars, hubVars>>

\* stop(): should_stop is set and the tasks are cancelled; with the client
\* connected stop() is suspended in its disconnect().
Stop ==
    /\ AtAwait
    /\ stop_pc = "idle"
    /\ stop_calls < MaxStops
    /\ should_stop' = TRUE
    /\ tasks' = Cancelled(tasks)
    /\ stop_pc' = IF client = "open" THEN "client" ELSE "idle"
    /\ stop_calls' = stop_calls + 1
    /\ stop_in_backoff' = (stop_in_backoff \/ pc = "backoff")
    /\ UNCHANGED <<config, interrupted, state, client, subscribed, stats, pc,
                   scan_attempt, reconnect_count, reconnect_delay, cycle_log,
                   other_sessions, other_subscribed>>
    /\ UNCHANGED hubVars

\* stop(): the disconnect() returned (the link of that client is down);
\* stop() returns.
StopDisconnectDone ==
    /\ AtAwait
    /\ stop_pc # "idle"
    /\ stop_pc' = "idle"
    /\ LET up == \/ stop_pc = "client" /\ client = "open"
                 \/ stop_pc \in {"dropped_subscribed", "dropped_silent"}
       IN \E cb \in BOOLEAN :
            /\ state' = StateAfterDisconnect(cb /\ up, state)
            /\ stats' = StatsAfterDisconnect(cb /\ up)
    /\ IF stop_pc = "client"
         THEN /\ client' = IF client = "open" THEN "closed" ELSE client
              /\ subscribed' = IF client = "open" THEN FALSE ELSE subscribed
              /\ UNCHANGED <<other_sessions, other_subscribed>>
         ELSE /\ other_sessions' =
                     other_sessions - (IF stop_pc = "dropped_closed" THEN 0 ELSE 1)
              /\ other_subscribed' =
                     other_subscribed - (IF stop_pc = "dropped_subscribed" THEN 1 ELSE 0)
              /\ UNCHANGED <<client, subscribed>>
    /\ UNCHANGED <<config, interrupted, should_stop, tasks, pc, scan_attempt,
                   reconnect_count, reconnect_delay, cycle_log, stop_calls,
                   stop_in_backoff>>
    /\ UNCHANGED hubVars

\* stop(): the disconnect() raised with the link still up; "except: pass",
\* stop() returns and the client stays connected.
StopDisconnectRaises ==
    /\ AtAwait
    /\ \/ stop_pc = "client" /\ client = "open"
       \/ stop_pc \in {"dropped_subscribed", "dropped_silent"}
    /\ stop_pc' = "idle"
    /\ UNCHANGED <<config, interrupted, state, client, subscribed, should_stop,
                   tasks, stats, pc, scan_attempt, reconnect_count,
                   reconnect_delay, cycle_log, stop_calls, stop_in_backoff,
                   other_sessions, other_subscribed>>
    /\ UNCHANGED hubVars

StopStep == StopDisconnectDone \/ StopDisconnectRaises

\* The device drops the link of a client that was dropped while connected:
\* the backend calls its disconnected_callback, which is _on_disconnect.
\* A stop() suspended in the disconnect() of that client finds it closed.
OtherSessionLost ==
    /\ AtAwait
    /\ \E kind \in {"dropped_subscribed", "dropped_silent"} :
         LET count == IF kind = "dropped_subscribed"
                        THEN other_subscribed
                        ELSE other_sessions - other_subscribed
         IN /\ count > 0
            /\ other_sessions' = other_sessions - 1
            /\ other_subscribed' =
                   other_subscribed - (IF kind = "dropped_subscribed" THEN 1 ELSE 0)
            /\ \/ stop_pc = kind /\ stop_pc' = "dropped_closed"
               \/ (stop_pc # kind \/ count > 1) /\ stop_pc' = stop_pc
    /\ state' = "DISCONNECTED"
    /\ stats' = OnDisconnectStats
    /\ UNCHANGED <<config, interrupted, client, subscribed, should_stop, tasks,
                   pc, scan_attempt, reconnect_count, reconnect_delay,
                   cycle_log, stop_calls, stop_in_backoff>>
    /\ UNCHANGED hubVars

TaskStep ==
    \/ KeepaliveStart \/ KeepaliveWake \/ KeepaliveWritten \/ KeepaliveFail
    \/ MonitorExit

\* A notification handler whose data callback's exception is not caught:
\* the exception reaches the backend, which drops the session.
HandleNotificationUncaught(callback) ==
    /\ AtAwait
    /\ (subscribed \/ other_subscribed > 0)
    /\ stats.total_data_received < MaxNotifications
    /\ IF callback = "raises"
         THEN /\ stats' = [OnDisconnectStats EXCEPT !.total_data_received = @ + 1]
              /\ state' = "DISCONNECTED"
              /\ client' = "closed"
              /\ subscribed' = FALSE
              /\ cycle_log' = Append(cycle_log, "callback_error")
         ELSE /\ stats' = [stats EXCEPT !.total_data_received = @ + 1]
              /\ cycle_log' = Append(cycle_log, "notified")
              /\ UNCHANGED <<state, client, subscribed>>
    /\ UNCHANGED <<config, interrupted, should_stop, tasks, pc, scan_attempt,
                   reconnect_count, reconnect_delay, stop_calls,
                   stop_in_backoff>>
    /\ UNCHANGED <<otherVars, hubVars>>

\* handle_notification(sender, data): the backend delivers a notification
\* of the subscribed characteristic, from the client of self.client or from
\* a client that was dropped while connected and subscribed.  The counter is incremented, the bytes
\* are decoded with errors='ignore' (which cannot raise, whatever the
\* bytes) and handed to the data callback, if there is one; an exception of
\* the callback is logged.  Nothing else is touched.
HandleNotification(callback) ==
    /\ AtAwait
    /\ (subscribed \/ other_subscribed > 0)
    /\ stats.total_data_received < MaxNotifications
    /\ stats' = [stats EXCEPT !.total_data_received = @ + 1]
    /\ cycle_log' = Append(cycle_log, IF callback = "raises"
                                        THEN "callback_error" ELSE "notified")
    /\ UNCHANGED <<config, interrupted, state, client, subscribed, should_stop,
                   tasks, pc, scan_attempt, reconnect_count, reconnect_delay,
                   stop_calls, stop_in_backoff>>
    /\ UNCHANGED <<otherVars, hubVars>>

\* What self.data_callback does when it is called: there is none, it
\* returns, or it raises.
DataCallbacks == {"none", "returns", "raises"}

(***************************************************************************)
(* bridge_server.py: the frame parser of handle_data.  A payload is a      *)
(* sequence of bytes (0..255); the text decoded from it is a sequence of   *)
(* Unicode code points.                                                    *)
(***************************************************************************)
\* The ASCII characters the payloads below are written with, and the bytes
\* of a text written with them.
Ord ==
    ("N" :> 78) @@
    (":" :> 58) @@
    ("0" :> 48) @@
    ("1" :> 49) @@
    ("2" :> 50) @@
    ("3" :> 51) @@
    ("4" :> 52) @@
    ("5" :> 53) @@
    ("6" :> 54) @@
    ("7" :> 55) @@
    ("8" :> 56) @@
    ("9" :> 57) @@
    ("+" :> 43) @@
    ("-" :> 45) @@
    ("_" :> 95) @@
    (" " :> 32) @@
    ("x" :> 120) @@
    ("y" :> 121) @@
    ("\t" :> 9) @@
    ("\n" :> 10) @@
    ("\r" :> 13)
RECURSIVE Ascii(_)
Ascii(chars) ==
    IF chars = <<>> THEN <<>> ELSE <<Ord[Head(chars)]>> \o Ascii(Tail(chars))

\* A byte that occurs in no UTF-8 text.
InvalidByte == 255

\* The code points str.strip() removes (str.isspace): the ASCII blanks and
\* separators, NEL, the no-break space and the Unicode spaces.
Whitespace ==
    {133, 160, 5760, 8232, 8233, 8239, 8287, 12288} \cup (9..13) \cup (28..32) \cup (8192..8202)

\* The code points int() reads as decimal digits: ten in a row from the
\* zero of each script ("0", Arabic-Indic, Devanagari, fullwidth, ...).
DecimalZeros ==
    {48, 1632, 1776, 1984, 2406, 2534, 2662, 2790, 2918, 3046, 3174,
     3302, 3430, 3558, 3664, 3792, 3872, 4160, 4240, 6112, 6160, 6470,
     6608, 6784, 6800, 6992, 7088, 7232, 7248, 42528, 43216, 43264,
     43472, 43504, 43600, 44016, 65296, 66720, 68912, 69734, 69872,
     69942, 70096, 70384, 70736, 70864, 71248, 71360, 71472, 71904,
     72016, 72784, 73040, 73120, 92768, 92864, 93008, 120782, 120792,
     120802, 120812, 120822, 123200, 123632, 125264, 130032}
IsDigit(c) == c \in 48..57 \/ \E z \in DecimalZeros : c \in z..(z + 9)
DigitValue(c) == c - (CHOOSE z \in DecimalZeros : c \in z..(z + 9))

\* data.decode("utf-8"), strict: a character is one byte below 128, or a
\* lead byte and one to three continuation bytes (128..191) in shortest
\* form, no surrogate and nothing above U+10FFFF; anything else raises
\* UnicodeDecodeError.
IsContinuation(b) == b \in 128..191
Utf8Width(b) ==
    IF b < 128 THEN 1
    ELSE IF b \in 194..223 THEN 2
    ELSE IF b \in 224..239 THEN 3
    ELSE IF b \in 240..244 THEN 4
    ELSE 0
SecondByteOk(lead, b) ==
    IF lead = 224 THEN b \in 160..191
    ELSE IF lead = 237 THEN b \in 128..159
    ELSE IF lead = 240 THEN b \in 144..191
    ELSE IF lead = 244 THEN b \in 128..143
    ELSE IsContinuation(b)
CharStarts(data) == {i \in DOMAIN data : ~IsContinuation(data[i])}
WellFormedAt(data, i) ==
    LET w == Utf8Width(data[i]) IN
    /\ w > 0
    /\ i + w - 1 <= Len(data)
    /\ w > 1 => SecondByteOk(data[i], data[i + 1])
    /\ \A k \in (i + 2)..(i + w - 1) : IsContinuation(data[k])
    /\ i + w <= Len(data) => ~IsContinuation(data[i + w])
DecodeOk(data) ==
    /\ data # <<>> => ~IsContinuation(data[1])
    /\ \A i \in CharStarts(data) : WellFormedAt(data, i)
CodePointAt(data, i) ==
    LET w == Utf8Width(data[i]) IN
    IF w = 1 THEN data[i]
    ELSE IF w = 2 THEN (data[i] - 192) * 64 + (data[i + 1] - 128)
    ELSE IF w = 3 THEN (data[i] - 224) * 4096 + (data[i + 1] - 128) * 64
                       + (data[i + 2] - 128)
    ELSE (data[i] - 240) * 262144 + (data[i + 1] - 128) * 4096
         + (data[i + 2] - 128) * 64 + (data[i + 3] - 128)
Decode(data) ==
    IF \A i \in DOMAIN data : data[i] < 128 THEN data
    ELSE LET at == CharStarts(data)
             rank == [i \in at |-> Cardinality({j \in at : j <= i})]
         IN  [k \in 1..Cardinality(at) |->
                 CodePointAt(data, CHOOSE i \in at : rank[i] = k)]

\* str.startswith
StartsWith(s, prefix) ==
    /\ Len(s) >= Len(prefix)
    /\ SubSeq(s, 1, Len(prefix)) = prefix

\* str.split(sep) with a one-character separator: the pieces between the
\* separators, one more than there are separators.
Split(s, sep) ==
    LET at == {i \in DOMAIN s : s[i] = sep}
        n == Cardinality(at)
        rank == [i \in at |-> Cardinality({j \in at : j <= i})]
        Cut(k) == IF k = 0 THEN 0
                  ELSE IF k = n + 1 THEN Len(s) + 1
                  ELSE CHOOSE i \in at : rank[i] = k
    IN  [k \in 1..(n + 1) |-> SubSeq(s, Cut(k - 1) + 1, Cut(k) - 1)]

\* str.strip()
LStrip(s) ==
    LET keep == {i \in DOMAIN s : s[i] \notin Whitespace} IN
    IF keep = {} THEN <<>>
    ELSE SubSeq(s, CHOOSE i \in keep : \A j \in 1..(i - 1) : s[j] \in Whitespace,
                Len(s))
RStrip(s) ==
    LET keep == {i \in DOMAIN s : s[i] \notin Whitespace} IN
    IF keep = {} THEN <<>>
    ELSE SubSeq(s, 1,
                CHOOSE i \in keep : \A j \in (i + 1)..Len(s) : s[j] \in Whitespace)
Strip(s) == RStrip(LStrip(s))

\* int(s): an optional sign, then decimal digits of any script in which
\* single underscores may separate digits; anything else raises
\* ValueError, and so does a literal of more than sys.int_max_str_digits
\* digits (4300 unless reconfigured, leading zeros counted).
MaxStrDigits == 4300
Unsigned(s) == IF s # <<>> /\ s[1] \in {Ord["+"], Ord["-"]} THEN Tail(s) ELSE s
DigitsAt(s) == {i \in DOMAIN s : IsDigit(s[i])}
IsIntLiteral(s) ==
    LET body == Unsigned(Strip(s)) IN
    /\ body # <<>>
    /\ \A i \in DOMAIN body : IsDigit(body[i]) \/ body[i] = Ord["_"]
    /\ body[1] # Ord["_"]
    /\ body[Len(body)] # Ord["_"]
    /\ \A i \in 1..(Len(body) - 1) :
          ~(body[i] = Ord["_"] /\ body[i + 1] = Ord["_"])
    /\ Cardinality(DigitsAt(body)) <= MaxStrDigits

\* The digits of a literal that count: from its first digit that is not
\* zero on (none for zero).
SignificantAt(s) ==
    LET nonzero == {i \in DigitsAt(s) : DigitValue(s[i]) # 0} IN
    IF nonzero = {} THEN {}
    ELSE LET first == CHOOSE i \in nonzero : \A j \in nonzero : i <= j
         IN  {i \in DigitsAt(s) : i >= first}
SignificantDigits(s) ==
    LET at == SignificantAt(s)
        rank == [i \in at |-> Cardinality({j \in at : j <= i})]
    IN  [k \in 1..Cardinality(at) |->
            DigitValue(s[CHOOSE i \in at : rank[i] = k])]
RECURSIVE DigitsValue(_)
DigitsValue(digits) ==
    IF digits = <<>> THEN 0
    ELSE 10 * DigitsValue(SubSeq(digits, 1, Len(digits) - 1))
         + digits[Len(digits)]
IntValue(s) ==
    LET t == Strip(s) IN
    IF t # <<>> /\ t[1] = Ord["-"] THEN 0 - DigitsValue(SignificantDigits(t))
                                ELSE DigitsValue(SignificantDigits(t))

\* raw / 100.0 converts raw to a float first, which raises OverflowError
\* when the nearest double is not finite: from 2^1024 - 2^970 on, a number
\* of 309 digits.
FloatOverflowDigits ==
    <<1, 7, 9, 7, 6, 9, 3, 1, 3, 4, 8, 6, 2, 3, 1, 5, 8, 0, 7, 9, 3, 7,
      2, 8, 9, 7, 1, 4, 0, 5, 3, 0, 3, 4, 1, 5, 0, 7, 9, 9, 3, 4, 1, 3,
      2, 7, 1, 0, 0, 3, 7, 8, 2, 6, 9, 3, 6, 1, 7, 3, 7, 7, 8, 9, 8, 0,
      4, 4, 4, 9, 6, 8, 2, 9, 2, 7, 6, 4, 7, 5, 0, 9, 4, 6, 6, 4, 9, 0,
      1, 7, 9, 7, 7, 5, 8, 7, 2, 0, 7, 0, 9, 6, 3, 3, 0, 2, 8, 6, 4, 1,
      6, 6, 9, 2, 8, 8, 7, 9, 1, 0, 9, 4, 6, 5, 5, 5, 5, 4, 7, 8, 5, 1,
      9, 4, 0, 4, 0, 2, 6, 3, 0, 6, 5, 7, 4, 8, 8, 6, 7, 1, 5, 0, 5, 8,
      2, 0, 6, 8, 1, 9, 0, 8, 9, 0, 2, 0, 0, 0, 7, 0, 8, 3, 8, 3, 6, 7,
      6, 2, 7, 3, 8, 5, 4, 8, 4, 5, 8, 1, 7, 7, 1, 1, 5, 3, 1, 7, 6, 4,
      4, 7, 5, 7, 3, 0, 2, 7, 0, 0, 6, 9, 8, 5, 5, 5, 7, 1, 3, 6, 6, 9,
      5, 9, 6, 2, 2, 8, 4, 2, 9, 1, 4, 8, 1, 9, 8, 6, 0, 8, 3, 4, 9, 3,
      6, 4, 7, 5, 2, 9, 2, 7, 1, 9, 0, 7, 4, 1, 6, 8, 4, 4, 4, 3, 6, 5,
      5, 1, 0, 7, 0, 4, 3, 4, 2, 7, 1, 1, 5, 5, 9, 6, 9, 9, 5, 0, 8, 0,
      9, 3, 0, 4, 2, 8, 8, 0, 1, 7, 7, 9, 0, 4, 1, 7, 4, 4, 9, 7, 7, 9,
      2>>
FloatOverflows(s) ==
    LET n == Cardinality(SignificantAt(s)) IN
    \/ n > Len(FloatOverflowDigits)
    \/ /\ n = Len(FloatOverflowDigits)
       /\ LET d == SignificantDigits(s) IN
          \A i \in DOMAIN d :
              d[i] < FloatOverflowDigits[i] =>
                  \E j \in 1..(i - 1) : d[j] > FloatOverflowDigits[j]

\* The double raw / 100.0 evaluates to, as <<m, e>> for m * 2^e with a
\* mantissa m of 53 bits: float(raw) is raw rounded to 53 bits, the
\* quotient is the double nearest to float(raw) / 100, ties going to the
\* even mantissa in both.
Abs(n) == IF n < 0 THEN 0 - n ELSE n
RoundHalfEven(n, d) ==
    LET q == n \div d
        r == n % d
    IN  IF 2 * r < d THEN q
        ELSE IF 2 * r > d THEN q + 1
        ELSE q + (q % 2)
IntToFloat(n) ==
    IF n < 2^53 THEN n
    ELSE LET k == (CHOOSE b \in 54..1024 : 2^(b - 1) <= n /\ n < 2^b) - 53
         IN  RoundHalfEven(n, 2^k) * 2^k
FloatDiv100(f) ==
    LET Scaled(e) == IF e >= 0 THEN <<f, 100 * 2^e>>
                               ELSE <<f * 2^(0 - e), 100>>
        e == CHOOSE k \in (-59)..971 :
                 /\ 2^52 * Scaled(k)[2] <= Scaled(k)[1]
                 /\ Scaled(k)[1] < 2^53 * Scaled(k)[2]
        m == RoundHalfEven(Scaled(e)[1], Scaled(e)[2])
    IN  IF m = 2^53 THEN <<2^52, e + 1>> ELSE <<m, e>>
Div100Double(raw) ==
    IF raw = 0 THEN <<0, 0>>
    ELSE LET d == FloatDiv100(IntToFloat(Abs(raw))) IN
         IF raw < 0 THEN <<0 - d[1], d[2]>> ELSE d

\* raw / 100.0: the float is written as the fraction <<r, 100>> of the
\* integer r of least magnitude with r / 100.0 == raw / 100.0.  Below
\* 100 * 2^46 two integers never give the same float and r is raw itself.
Div100(raw) ==
    IF Abs(raw) \div 2^23 < 100 * 2^23 THEN <<raw, 100>>
    ELSE LET same == {r \in (0 - Abs(raw))..Abs(raw) :
                         Div100Double(r) = Div100Double(raw)}
         IN  <<CHOOSE r \in same : \A q \in same : Abs(r) <= Abs(q), 100>>

\* What handle_data stores: nothing, y alone, or y and x.
NoFrame == [ok |-> FALSE, torn |-> FALSE]
YOnly(y) == [ok |-> FALSE, torn |-> TRUE, y |-> y]

\* handle_data(): the decoding of one notification.  NoFrame where the code
\* updates nothing: a text without "N:" at its start, a split into other
\* than two parts, a UnicodeDecodeError or a ValueError of either int()
\* (both are called before anything is stored), or an OverflowError of the
\* first division.  YOnly where the second division raises OverflowError:
\* latest_angles["y"] has been assigned by then, latest_angles["x"] and
\* the event are not touched.  All these exceptions are caught.
ParseFrame(data) ==
    IF ~DecodeOk(data) THEN NoFrame
    ELSE LET text == Decode(data) IN
         IF ~StartsWith(text, Ascii(<<"N", ":">>)) THEN NoFrame
         ELSE LET parts == Split(SubSeq(text, 3, Len(text)), Ord[":"]) IN
              IF Len(parts) # 2 THEN NoFrame
              ELSE IF ~IsIntLiteral(Strip(parts[1])) THEN NoFrame
              ELSE IF ~IsIntLiteral(Strip(parts[2])) THEN NoFrame
              ELSE IF FloatOverflows(Strip(parts[1])) THEN NoFrame
              ELSE IF FloatOverflows(Strip(parts[2]))
                THEN YOnly(Div100(IntValue(Strip(parts[1]))))
              ELSE [ok |-> TRUE, torn |-> FALSE,
                    y |-> Div100(IntValue(Strip(parts[1]))),
                    x |-> Div100(IntValue(Strip(parts[2])))]

\* The wire frame N:<y>:<x>\r of the sensor.
DigitChars == <<"0", "1", "2", "3", "4", "5", "6", "7", "8", "9">>
RECURSIVE NatChars(_)
NatChars(n) ==
    IF n < 10 THEN <<DigitChars[n + 1]>>
    ELSE NatChars(n \div 10) \o <<DigitChars[(n % 10) + 1]>>
IntChars(n) == IF n < 0 THEN <<"-">> \o NatChars(0 - n) ELSE NatChars(n)
Frame(y, x) ==
    Ascii(<<"N", ":">> \o IntChars(y) \o <<":">> \o IntChars(x) \o <<"\r">>)

\* A number too large for a float: 9 written 310 times.
TooLarge == [i \in 1..(Len(FloatOverflowDigits) + 1) |-> Ord["9"]]
YOnlyPayload == Ascii(<<"N", ":", "5", ":">>) \o TooLarge \o Ascii(<<"\r">>)

\* The notifications the sensor sends in the broadcast model: its n-th
\* frame carries the reading (n, -n) in degrees, and between frames it
\* sends payloads that are no frame, one of them with a second number too
\* large for a float.
HubPayloads(n) ==
    {Frame(100 * n, -100 * n),
     Ascii(<<"N", ":", "1", "2", "\r">>),
     Ascii(<<"N", ":", "1", ":">>) \o <<InvalidByte>> \o Ascii(<<"\r">>),
     YOnlyPayload}

\* The payloads of the parser specification, each with the centidegree
\* integers written in it (frame is FALSE where it has no two integers that
\* fit a float): the frames of a few values, with and without the
\* terminator or with bytes in front; payloads lacking the marker or the
\* separator or with too many separators; frames one of whose integers is
\* no number or too large; frames with signs, blanks, an underscore and
\* digits of other scripts as int() takes them.
FrameValues == {-150, 0, 7}
Garbage == {Ascii(<<"x", "y">>), <<InvalidByte>> \o Ascii(<<" ">>)}
NotNumbers ==
    {Ascii(<<"x">>), <<>>, <<InvalidByte>>, <<217>>, <<192, 177>>,
     Ascii(<<"1", "_", "_", "0">>), Ascii(<<"1", " ", "0">>)}
Payload(data, y, x) == [data |-> data, frame |-> TRUE, y |-> y, x |-> x]
NotFrame(data) == [data |-> data, frame |-> FALSE, y |-> 0, x |-> 0]
NoStart(y, x) == Ascii(IntChars(y) \o <<":">> \o IntChars(x) \o <<"\r">>)
NoSeparator(y, x) ==
    Ascii(<<"N", ":">> \o IntChars(y) \o <<" ">> \o IntChars(x) \o <<"\r">>)
NoEnd(y, x) == Ascii(<<"N", ":">> \o IntChars(y) \o <<":">> \o IntChars(x))
ParserInputs ==
    {Payload(Frame(y, x), y, x) : y \in FrameValues, x \in FrameValues}
    \cup {Payload(NoEnd(y, x), y, x) : y \in FrameValues, x \in FrameValues}
    \cup {Payload(g \o Frame(7, x), 7, x) : g \in Garbage, x \in FrameValues}
    \cup {NotFrame(NoStart(y, 7)) : y \in FrameValues}
    \cup {NotFrame(NoSeparator(y, 0)) : y \in FrameValues}
    \cup {NotFrame(Frame(7, 0) \o Ascii(<<":", "3", "\r">>))}
    \cup {NotFrame(Ascii(<<"N", ":", "7", ":">>) \o w \o Ascii(<<"\r">>)) :
              w \in NotNumbers}
    \cup {NotFrame(Ascii(<<"N", ":">>) \o w \o Ascii(<<":", "7", "\r">>)) :
              w \in NotNumbers}
    \cup {Payload(Ascii(<<"N", ":", " ", "+", "5", " ", ":", " ", "-", "1",
                          "_", "0", " ", "\r", "\n">>), 5, -10),
          Payload(Ascii(<<"N", ":", "7">>) \o <<12>> \o Ascii(<<":">>)
                      \o <<194, 160>> \o Ascii(<<"0">>) \o <<227, 128, 128, 31>>,
                  7, 0),
          Payload(Ascii(<<"N", ":", "-">>) \o <<217, 161, 239, 188, 149>>
                      \o Ascii(<<"0", ":">>) \o <<224, 165, 173>>
                      \o Ascii(<<"\r">>),
                  -150, 7),
          NotFrame(YOnlyPayload),
          NotFrame(Ascii(<<"N", ":">>) \o TooLarge \o Ascii(<<":", "5", "\r">>))}
ParserPayloads == {p.data : p \in ParserInputs}

\* ParseFrame on every payload of the two models, computed once.
Payloads ==
    ParserPayloads \cup UNION {HubPayloads(n) : n \in 1..(MaxParsed + 1)}
FrameOf == [data \in Payloads |-> ParseFrame(data)]

(***************************************************************************)
(* bridge_server.py: the latest reading, the broadcast loop and the        *)
(* consumers.                                                              *)
(***************************************************************************)
Consumers == {"A", "B", "C"}
SensorAddress == "addr"
None == "None"

\* The reading handle_data stores for the sensor's n-th frame.
SensorReadings ==
    [n \in 1..(MaxParsed + 1) |->
        LET r == ParseFrame(Frame(100 * n, -100 * n)) IN
        [id |-> SensorAddress, y |-> r.y, x |-> r.x]]
NthReading(n) == SensorReadings[n]

\* json.dumps(latest_angles): the keys in insertion order with their values.
ToJson(angles) == <<<<"id", angles.id>>, <<"y", angles.y>>, <<"x", angles.x>>>>

HubIdle ==
    [pc |-> "waiting", json_data |-> None, iter_size |-> 0, initial |-> {},
     visited |-> {}, current |-> None, disconnected_clients |-> {}]

NoDrain ==
    [members |-> {}, delivered |-> [c \in Consumers |-> 0], failed |-> {},
     seq |-> 0, latest |-> None]

\* handle_data has not been called yet.
NoNotification == [data |-> <<>>, serial |-> 0]

\* A consumer that has not been sent anything yet.
NoMessage == [json |-> <<>>, seq |-> 0]

HubInit ==
    /\ latest_angles = [id |-> None, y |-> Div100(0), x |-> Div100(0)]
    /\ connected_clients = {}
    /\ new_data_available = FALSE
    /\ hub = HubIdle
    /\ conn = [c \in Consumers |-> "new"]
    /\ ble = "start"
    /\ parsed = 0
    /\ received = [c \in Consumers |-> NoMessage]
    /\ drain = NoDrain
    /\ notification = NoNotification

\* ble_connect_and_notify(): latest_angles["id"] = sensor_address, then the
\* first connection attempt.
BleStart ==
    /\ ble = "start"
    /\ latest_angles' = [latest_angles EXCEPT !.id = SensorAddress]
    /\ ble' = "connecting"
    /\ UNCHANGED <<connected_clients, new_data_available, hub, conn, parsed,
                   received, drain>>
    /\ UNCHANGED <<notification, supVars>>

\* ble_connect_and_notify(): connected, start_notify(DATA_UUID, handle_data).
BleConnected ==
    /\ ble = "connecting"
    /\ ble' = "notifying"
    /\ UNCHANGED <<latest_angles, connected_clients, new_data_available, hub,
                   conn, parsed, received, drain>>
    /\ UNCHANGED <<notification, supVars>>

\* ble_connect_and_notify(): the connection failed, or the link was lost;
\* sleep RECONNECT_DELAY.
BleLost ==
    /\ ble \in {"connecting", "notifying"}
    /\ ble' = "backoff"
    /\ UNCHANGED <<latest_angles, connected_clients, new_data_available, hub,
                   conn, parsed, received, drain>>
    /\ UNCHANGED <<notification, supVars>>

\* ble_connect_and_notify(): the sleep is over, connect again.
BleRetry ==
    /\ ble = "backoff"
    /\ ble' = "connecting"
    /\ UNCHANGED <<latest_angles, connected_clients, new_data_available, hub,
                   conn, parsed, received, drain>>
    /\ UNCHANGED <<notification, supVars>>

\* handle_data(sender, data): a frame updates y and x and sets the event; a
\* frame whose second number is too large for a float updates y and then
\* fails; anything else changes nothing.
HandleData(data) ==
    /\ ble = "notifying"
    /\ LET r == FrameOf[data] IN
       IF r.ok
         THEN /\ parsed < MaxParsed
              /\ latest_angles' = [latest_angles EXCEPT !.y = r.y, !.x = r.x]
              /\ new_data_available' = TRUE
              /\ parsed' = parsed + 1
         ELSE IF r.torn
           THEN /\ latest_angles' = [latest_angles EXCEPT !.y = r.y]
                /\ UNCHANGED <<new_data_available, parsed>>
           ELSE UNCHANGED <<latest_angles, new_data_available, parsed>>
    /\ UNCHANGED <<connected_clients, hub, conn, ble, received, drain>>
    /\ UNCHANGED <<notification, supVars>>

\* websocket_handler(): a consumer connects; connected_clients.add.
Attach(c) ==
    /\ ble # "start"
    /\ conn[c] = "new"
    /\ conn' = [conn EXCEPT ![c] = "open"]
    /\ connected_clients' = connected_clients \cup {c}
    /\ UNCHANGED <<latest_angles, new_data_available, hub, ble, parsed,
                   received, drain>>
    /\ UNCHANGED <<notification, supVars>>

\* The remote end closes the consumer's connection: a send to it now raises
\* ConnectionClosed, and its websocket_handler is about to leave its loop.
RemoteClose(c) ==
    /\ conn[c] = "open"
    /\ conn' = [conn EXCEPT ![c] = "closing"]
    /\ UNCHANGED <<latest_angles, connected_clients, new_data_available, hub,
                   ble, parsed, received, drain>>
    /\ UNCHANGED <<notification, supVars>>

\* websocket_handler(): the loop over the websocket has ended; "finally:
\* connected_clients.discard(websocket)".
Detach(c) ==
    /\ conn[c] = "closing"
    /\ conn' = [conn EXCEPT ![c] = "gone"]
    /\ connected_clients' = connected_clients \ {c}
    /\ UNCHANGED <<latest_angles, new_data_available, hub, ble, parsed,
                   received, drain>>
    /\ UNCHANGED <<notification, supVars>>

\* send_data_to_clients(): the event is set; it is cleared; with no
\* consumer the loop continues, otherwise the reading is serialised once
\* and the iteration over connected_clients starts with a first send.
HubWake ==
    /\ hub.pc = "waiting"
    /\ new_data_available
    /\ new_data_available' = FALSE
    /\ IF connected_clients = {}
         THEN /\ hub' = hub
              /\ drain' = NoDrain
         ELSE /\ \E c \in connected_clients :
                   hub' = [pc |-> "sending",
                           json_data |-> ToJson(latest_angles),
                           iter_size |-> Cardinality(connected_clients),
                           initial |-> connected_clients,
                           visited |-> {c},
                           current |-> c,
                           disconnected_clients |-> {}]
              /\ drain' = [members |-> connected_clients,
                           delivered |-> [c \in Consumers |-> 0],
                           failed |-> {},
                           seq |-> parsed, latest |-> latest_angles]
    /\ UNCHANGED <<latest_angles, connected_clients, conn, ble, parsed, received>>
    /\ UNCHANGED <<notification, supVars>>

\* send_data_to_clients(): the "for client in connected_clients" loop asks
\* its set iterator for the next consumer, after the send to hub.current
\* ended with disc the consumers whose send raised ConnectionClosed.  A set
\* whose size changed since the loop began raises RuntimeError, which the
\* outer "except Exception" logs before it sleeps.  Otherwise the iterator
\* walks on through the slots of the set's hash table: the consumers the
\* set held when the loop began (hub.initial) and still holds lie ahead of
\* it until it has yielded them; a consumer added since lies wherever its
\* hash put it, ahead (it is yielded, before or after the others) or
\* behind (it is passed over).  At the end of the table the consumers of
\* disc are removed.  (With at most three consumers ever added the table
\* is never rebuilt, so no consumer is yielded twice.)
IterNext(disc) ==
    IF Cardinality(connected_clients) # hub.iter_size
      THEN /\ hub' = [HubIdle EXCEPT !.pc = "error_sleep"]
           /\ UNCHANGED connected_clients
      ELSE LET ahead == connected_clients \ hub.visited IN
           \/ /\ ahead \cap hub.initial = {}
              /\ hub' = HubIdle
              /\ connected_clients' = connected_clients \ disc
           \/ /\ \E c \in ahead :
                    hub' = [hub EXCEPT !.current = c,
                                       !.visited = @ \cup {c},
                                       !.disconnected_clients = disc]
              /\ UNCHANGED connected_clients

\* send_data_to_clients(): "await client.send(json_data)" returned.
SendOk ==
    /\ hub.pc = "sending"
    /\ conn[hub.current] = "open"
    /\ received' = [received EXCEPT ![hub.current] =
                       [json |-> hub.json_data, seq |-> drain.seq]]
    /\ drain' = [drain EXCEPT !.delivered[hub.current] = @ + 1]
    /\ IterNext(hub.disconnected_clients)
    /\ UNCHANGED <<latest_angles, new_data_available, conn, ble, parsed>>
    /\ UNCHANGED <<notification, supVars>>

\* send_data_to_clients(): "await client.send(json_data)" raised
\* ConnectionClosed; the consumer is noted for removal.
SendClosed ==
    /\ hub.pc = "sending"
    /\ conn[hub.current] # "open"
    /\ drain' = [drain EXCEPT !.failed = @ \cup {hub.current}]
    /\ IterNext(hub.disconnected_clients \cup {hub.current})
    /\ UNCHANGED <<latest_angles, new_data_available, conn, ble, parsed,
                   received>>
    /\ UNCHANGED <<notification, supVars>>

\* send_data_to_clients(): the sleep after a logged exception is over.
HubResume ==
    /\ hub.pc = "error_sleep"
    /\ hub' = HubIdle
    /\ UNCHANGED <<latest_angles, connected_clients, new_data_available, conn,
                   ble, parsed, received, drain>>
    /\ UNCHANGED <<notification, supVars>>

\* handle_data(sender, data), with its argument recorded: a frame updates
\* y and x and sets the event; a frame whose second number is too large
\* for a float updates y and then fails (the two int() calls come before
\* the two assignments, each division right before its assignment);
\* anything else changes nothing.  Every exception is caught.
ReceiveNotification(data) ==
    /\ notification' = [data |-> data, serial |-> 1 - notification.serial]
    /\ LET r == FrameOf[data] IN
       IF r.ok
         THEN /\ latest_angles' = [latest_angles EXCEPT !.y = r.y, !.x = r.x]
              /\ new_data_available' = TRUE
         ELSE IF r.torn
           THEN /\ latest_angles' = [latest_angles EXCEPT !.y = r.y]
                /\ UNCHANGED new_data_available
           ELSE UNCHANGED <<latest_angles, new_data_available>>
    /\ UNCHANGED <<connected_clients, hub, conn, ble, parsed, received, drain>>
    /\ UNCHANGED supVars

HubNext ==
    \/ BleStart \/ BleConnected \/ BleLost \/ BleRetry
    \/ \E data \in HubPayloads(parsed + 1) : HandleData(data)
    \/ \E c \in Consumers : Attach(c) \/ RemoteClose(c) \/ Detach(c)
    \/ HubWake \/ SendOk \/ SendClosed \/ HubResume

(***************************************************************************)
(* Specifications.                                                         *)
(***************************************************************************)
SupNext ==
    \/ RunStep \/ TaskStep \/ WaitRaises \/ RunInterrupted \/ LinkLost
    \/ OtherSessionLost \/ Stop \/ StopStep

\* The supervisor (kiriri_bridge.py) under every configuration.
Init == SupInit /\ HubInit

Next == SupNext

Spec == Init /\ [][Next]_vars

\* The event loop resumes every task that can run, and every awaited call
\* of run() returns (each has a timeout).  The device is not bound to drop
\* the link, nor anybody to call stop() or to interrupt run().
FairSpec ==
    /\ Spec
    /\ WF_vars(RunStep)
    /\ WF_vars(TaskStep)
    /\ WF_vars(StopStep)

\* The supervisor with a sensor that sends notifications, under one
\* configuration, with a cap of two attempts.  (In Spec the sensor sends
\* none: a notification changes nothing that run(), the tasks or stop()
\* read.)
NotifyInit ==
    /\ SupInit
    /\ config = [reconnect_delay |-> Rat(1, 1),
                 reconnect_backoff_factor |-> Rat(2, 1),
                 max_reconnect_delay |-> Rat(5, 1),
                 max_reconnect_attempts |-> 2,
                 keepalive_enabled |-> TRUE]
    /\ HubInit

Notified == \E callback \in DataCallbacks : HandleNotification(callback)

NotifyNext == SupNext \/ Notified

NotifySpec == NotifyInit /\ [][NotifyNext]_vars

\* The broadcast program (bridge_server.py); the supervisor of the other
\* program does not run.
HubSpecInit ==
    /\ SupInit
    /\ config = [reconnect_delay |-> Rat(1, 1),
                 reconnect_backoff_factor |-> Rat(2, 1),
                 max_reconnect_delay |-> Rat(5, 1),
                 max_reconnect_attempts |-> -1,
                 keepalive_enabled |-> TRUE]
    /\ HubInit

HubSpec == HubSpecInit /\ [][HubNext]_vars

\* The parser of bridge_server.py on its own: handle_data is called with
\* any of ParserPayloads, in any order; the broadcast loop, with no
\* consumer attached, clears the event.
ParserNext ==
    \/ \E data \in ParserPayloads : ReceiveNotification(data)
    \/ HubWake

ParserSpec == HubSpecInit /\ [][ParserNext]_vars

\* The event loop resumes the broadcast loop whenever it can run: a set
\* event wakes it, a send to an open connection returns, a send to a closed
\* one raises, the sleep after a logged exception ends.  A handler whose
\* connection has closed reaches its "finally".  The sensor is not bound to
\* send, nor a consumer to connect or to close.
HubStep == HubWake \/ SendOk \/ SendClosed \/ HubResume

HubFairSpec ==
    /\ HubSpec
    /\ WF_vars(HubStep)
    /\ \A c \in Consumers : WF_vars(Detach(c))

(***************************************************************************)
(* Properties of the supervisor.                                           *)
(***************************************************************************)
InLog(e) == \E i \in DOMAIN cycle_log : cycle_log[i] = e
CountInLog(e) == Cardinality({i \in DOMAIN cycle_log : cycle_log[i] = e})
IndexInLog(e) == CHOOSE i \in DOMAIN cycle_log : cycle_log[i] = e

\* min(d * f^(k-1), max_reconnect_delay)
ClosedFormDelay(k) ==
    RMin(RMul(config.reconnect_delay,
              RPow(config.reconnect_backoff_factor, k - 1)),
         config.max_reconnect_delay)

BaseWithinCeiling == ~RLess(config.max_reconnect_delay, config.reconnect_delay)

\* C1: with reconnect_delay <= max_reconnect_delay, the delay run() sleeps
\* after the k-th consecutive return of connect_and_run is
\* min(d * f^(k-1), max_reconnect_delay): d, min(d*f, max), min(d*f^2, max), ...
C1_BackoffGrowth ==
    (pc = "backoff" /\ BaseWithinCeiling)
        => reconnect_delay = ClosedFormDelay(reconnect_count)

\* The third failure in a row sleeps a delay that has grown and hit the ceiling.
C1_Witness ==
    /\ pc = "backoff"
    /\ reconnect_count = 3
    /\ BaseWithinCeiling
    /\ RLess(config.reconnect_delay, reconnect_delay)
    /\ reconnect_delay = config.max_reconnect_delay
    /\ RLess(config.max_reconnect_delay,
             RMul(config.reconnect_delay, RPow(config.reconnect_backoff_factor, 2)))

\* C2: the delay slept after a cycle that reached CONNECTED is the base
\* delay reconnect_delay, whatever failures came before.
C2_DelayResetAfterConnected ==
    (pc = "backoff" /\ InLog("connected"))
        => reconnect_delay = config.reconnect_delay

\* C3: when a positive max_reconnect_attempts is exhausted, run() has ended
\* and the state is the terminal failure state ERROR.
C3_CapEndsInError ==
    (pc = "done" /\ CapReached(reconnect_count)) => state = "ERROR"

\* C4: with max_reconnect_attempts = -1 a failed cycle is always followed by
\* the backoff sleep of another attempt, and run() has ended only if
\* should_stop is set.
C4_NoCapNeverGivesUp ==
    /\ [](config.max_reconnect_attempts = -1 /\ pc = "done" => should_stop)
    /\ [][(config.max_reconnect_attempts = -1
             /\ reconnect_count' = reconnect_count + 1) => pc' = "backoff"]_vars

\* C4, with the interrupt: with max_reconnect_attempts = -1 a failed cycle
\* is always followed by the backoff sleep of another attempt, and run() has
\* ended only if should_stop is set or a KeyboardInterrupt was raised inside
\* the loop.
C4_NoCapEndsOnStopOrInterrupt ==
    /\ [](config.max_reconnect_attempts = -1 /\ pc = "done"
            => should_stop \/ interrupted)
    /\ [][(config.max_reconnect_attempts = -1
             /\ reconnect_count' = reconnect_count + 1) => pc' = "backoff"]_vars

\* Without a cap, four failures in a row were each followed by a backoff
\* sleep, and a KeyboardInterrupt in the fourth sleep ended run() with
\* should_stop not set.
C4_Witness ==
    /\ config.max_reconnect_attempts = -1
    /\ reconnect_count >= 4
    /\ pc = "done"
    /\ interrupted
    /\ ~should_stop

\* C5: the state is CONNECTED exactly when a notification subscription is
\* active.
C5_ConnectedIffSubscribed == (state = "CONNECTED") <=> subscribed

\* C6: once a keepalive write has failed, the session is released and the
\* supervisor is no longer CONNECTED.
C6_KeepaliveFailureIsLinkLoss ==
    tasks.keepalive = "failed" => (state # "CONNECTED" /\ client # "open")

\* C7: a cycle that reaches CONNECTED wrote exactly one start command, after
\* the subscription succeeded and before the state became CONNECTED; a cycle
\* whose subscription failed wrote none.
C7_StartCommandOnce ==
    /\ state = "CONNECTED" => InLog("connected")
    /\ InLog("connected") =>
         /\ CountInLog("start_cmd") = 1
         /\ CountInLog("subscribe_ok") = 1
         /\ IndexInLog("subscribe_ok") < IndexInLog("start_cmd")
         /\ IndexInLog("start_cmd") < IndexInLog("connected")
    /\ InLog("start_cmd") => InLog("subscribe_ok")
    /\ InLog("subscribe_fail") => ~InLog("start_cmd")

\* The first cycle is CONNECTED with its one start command written,
\* although the link dropped while the write was completing (nobody called
\* stop(), _on_disconnect has counted the loss).
C7_Witness ==
    /\ state = "CONNECTED"
    /\ pc = "wait"
    /\ client = "closed"
    /\ reconnect_count = 0
    /\ stop_calls = 0
    /\ stats.total_disconnections = 1
    /\ cycle_log = <<"subscribe_ok", "start_cmd", "connected">>

\* C8: after stop() has been called, run() eventually has returned with the
\* client not connected.
C8_StopEndsRun == (stop_calls > 0) ~> (pc = "done" /\ client # "open")

programVars == <<state, client, subscribed, should_stop, tasks, stats, pc,
                 reconnect_count, reconnect_delay>>

\* C9: after a stop() during the backoff sleep, run() starts no new scan or
\* connect attempt, no session is open once run() and stop() have returned,
\* and a further stop() changes nothing.
C9_StopDuringBackoff ==
    /\ [](stop_in_backoff =>
            /\ pc \in {"backoff", "loop", "done"}
            /\ ((pc = "done" /\ stop_pc = "idle") => client # "open"))
    /\ [][(stop_in_backoff /\ stop_calls' = stop_calls + 1)
             => UNCHANGED programVars]_vars

\* C21: in a cycle whose service discovery failed, once the disconnect()
\* that connect_and_run awaits is over the client is not connected; nothing
\* was subscribed, no start command was written and CONNECTED was not
\* entered; run() goes to the backoff sleep with the delay of any other
\* failed cycle, and has ended only at the attempt cap or after stop() (or,
\* as in C4, on a KeyboardInterrupt).
C21_DiscoveryFailureIsRetried ==
    InLog("discover_fail") =>
        /\ pc # "release" => client # "open"
        /\ ~subscribed
        /\ state # "CONNECTED"
        /\ cycle_log = <<"discover_fail">>
        /\ pc \in {"release", "backoff", "loop", "done"}
        /\ pc = "done" =>
               (should_stop \/ CapReached(reconnect_count) \/ interrupted)
        /\ (pc = "backoff" /\ BaseWithinCeiling) =>
               reconnect_delay = ClosedFormDelay(reconnect_count)

\* C22: with max_reconnect_attempts = N > 0, reconnect_count only grows, by
\* one at each return of connect_and_run, and never beyond N; the return
\* that makes it N ends run() and every earlier return starts a backoff
\* sleep (so run() sleeps N - 1 times); without stop(), run() has ended only
\* with reconnect_count = N, whether or not a cycle reached CONNECTED.
C22_CapCountsEveryReturn ==
    /\ [](config.max_reconnect_attempts > 0 =>
            /\ reconnect_count <= config.max_reconnect_attempts
            /\ pc = "backoff" => reconnect_count < config.max_reconnect_attempts
            /\ (pc = "done" /\ stop_calls = 0) =>
                   reconnect_count = config.max_reconnect_attempts)
    /\ [][config.max_reconnect_attempts > 0 =>
             /\ reconnect_count' \in {reconnect_count, reconnect_count + 1}
             /\ reconnect_count' = reconnect_count + 1 =>
                    pc' = IF reconnect_count' < config.max_reconnect_attempts
                            THEN "backoff" ELSE "done"
             /\ (pc' = "backoff" /\ pc # "backoff") =>
                    reconnect_count' = reconnect_count + 1
             /\ (pc' = "done" /\ pc # "done" /\ ~should_stop) =>
                    reconnect_count' = reconnect_count + 1]_vars

\* C22, with the interrupt: as above, but run() has ended only with
\* reconnect_count = N unless stop() was called or a KeyboardInterrupt was
\* raised inside the loop; either can end run() after fewer returns.
C22_CapCountsEveryReturnUnlessEnded ==
    /\ [](config.max_reconnect_attempts > 0 =>
            /\ reconnect_count <= config.max_reconnect_attempts
            /\ pc = "backoff" => reconnect_count < config.max_reconnect_attempts
            /\ (pc = "done" /\ stop_calls = 0 /\ ~interrupted) =>
                   reconnect_count = config.max_reconnect_attempts)
    /\ [][config.max_reconnect_attempts > 0 =>
             /\ reconnect_count' \in {reconnect_count, reconnect_count + 1}
             /\ reconnect_count' = reconnect_count + 1 =>
                    pc' = IF reconnect_count' < config.max_reconnect_attempts
                            THEN "backoff" ELSE "done"
             /\ (pc' = "backoff" /\ pc # "backoff") =>
                    reconnect_count' = reconnect_count + 1
             /\ (pc' = "done" /\ pc # "done" /\ ~should_stop
                   /\ ~interrupted') =>
                    reconnect_count' = reconnect_count + 1]_vars

\* A cap of 2: the first cycle failed, the second reached CONNECTED and
\* lost the link, and run() has ended without stop() or interrupt.
C22_Witness ==
    /\ config.max_reconnect_attempts = 2
    /\ reconnect_count = 2
    /\ pc = "done"
    /\ stop_calls = 0
    /\ ~interrupted
    /\ InLog("connected")
    /\ reconnect_delay = BackoffNext(config.reconnect_delay)

RLeq(a, b) == ~RLess(b, a)

FactorAtLeastOne == RLeq(<<1, 1>>, config.reconnect_backoff_factor)

\* C24: with reconnect_delay <= max_reconnect_delay and
\* reconnect_backoff_factor >= 1, the delay of run() stays in
\* [reconnect_delay, max_reconnect_delay], never decreases, and stays at
\* max_reconnect_delay once it is there.
C24_DelayBoundedMonotone ==
    /\ []((BaseWithinCeiling /\ FactorAtLeastOne) =>
            /\ RLeq(config.reconnect_delay, reconnect_delay)
            /\ RLeq(reconnect_delay, config.max_reconnect_delay))
    /\ [][(BaseWithinCeiling /\ FactorAtLeastOne) =>
            /\ RLeq(reconnect_delay, reconnect_delay')
            /\ reconnect_delay = config.max_reconnect_delay =>
                   reconnect_delay' = config.max_reconnect_delay]_vars

\* The delay grew from the base to the ceiling at the third failure and is
\* still the ceiling in the sleep after the fourth.
C24_Witness ==
    /\ pc = "backoff"
    /\ reconnect_count = 4
    /\ BaseWithinCeiling /\ FactorAtLeastOne
    /\ RLess(config.reconnect_delay, config.max_reconnect_delay)
    /\ ClosedFormDelay(3) = config.max_reconnect_delay
    /\ reconnect_delay = config.max_reconnect_delay

\* The device sessions that are open: the client of self.client if it is
\* connected, and the connected clients that were dropped.
OpenSessions == other_sessions + (IF client = "open" THEN 1 ELSE 0)

\* C23: at most one device session is open, and no connected client exists
\* that self.client does not reference.
C23_AtMostOneSession ==
    /\ OpenSessions <= 1
    /\ other_sessions = 0

\* C20: every step in which the state leaves CONNECTED increments
\* total_disconnections.
C20_LeavingConnectedIsCounted ==
    [][(state = "CONNECTED" /\ state' # "CONNECTED") =>
         stats'.total_disconnections = stats.total_disconnections + 1]_vars

(***************************************************************************)
(* Properties of the broadcast program.                                    *)
(***************************************************************************)
\* A consumer that is attached and whose connection is open.
Healthy(c) == c \in connected_clients /\ conn[c] = "open"

\* C10: when readings are written before the broadcast loop drains the
\* event, the drain delivers exactly one message to each attached consumer,
\* and each message of the drain carries the reading that was the latest
\* when the event was drained.
C10_LastValueWins ==
    /\ hub.pc # "sending" =>
         \A c \in drain.members : Healthy(c) => drain.delivered[c] = 1
    /\ \A c \in Consumers :
         /\ drain.delivered[c] <= 1
         /\ drain.delivered[c] = 1 => received[c].json = ToJson(drain.latest)

\* C11: once a broadcast in which a send failed is over, the consumers
\* whose send failed are out of connected_clients, and every other consumer
\* of that broadcast whose connection is open is still in the set and got
\* the message of that broadcast.
C11_SendFailureRemovesOnlyThatConsumer ==
    (hub.pc # "sending" /\ drain.failed # {}) =>
        /\ \A c \in drain.failed : c \notin connected_clients
        /\ \A c \in drain.members \ drain.failed :
              conn[c] = "open" =>
                  (c \in connected_clients /\ drain.delivered[c] = 1)

\* C12: while a broadcast is under way, the send to every consumer of the
\* broadcast has been started: none waits for another consumer's send.
C12_SendsStartTogether ==
    hub.pc = "sending" => drain.members \subseteq hub.visited

\* C13: while a broadcast iterates over connected_clients, the set is the
\* one the iteration started on, and no broadcast is aborted by the set
\* having changed under its iteration.
C13_ExclusiveConsumerSet ==
    /\ hub.pc = "sending" => connected_clients = drain.members
    /\ hub.pc # "error_sleep"

\* C14: a consumer that from some point on stays attached with an open
\* connection does not keep a stale message: from some point on, the last
\* message it has received (if it has received any) is the one of the
\* latest parsed reading.
C14_EventuallyLatest ==
    \A c \in Consumers :
        (<>[]Healthy(c)) =>
            <>[](received[c] = NoMessage \/ received[c].seq = parsed)

\* C15: the message a consumer holds is the reading of a frame that was
\* parsed, and each message a consumer receives is the reading of a frame
\* parsed no earlier than the frame of the message it received before.
C15_DeliveredInParseOrder ==
    /\ [](\A c \in Consumers :
            received[c] # NoMessage =>
                \E k \in 1..parsed : received[c].json = ToJson(NthReading(k)))
    /\ [][\A c \in Consumers : \A k, j \in 1..parsed' :
             (/\ received[c].json = ToJson(NthReading(k))
              /\ received'[c].json = ToJson(NthReading(j))) => k <= j]_vars

\* C25: a message reaches a consumer only in a step of a broadcast that the
\* loop began, on a set event, with that consumer in connected_clients; a
\* step that attaches a consumer sends nothing; and a wake-up that finds
\* connected_clients empty clears the event, sends nothing and leaves the
\* loop waiting.
C25_SendOnlyInSignalledBroadcast ==
    [][(\A c \in Consumers :
           (received'[c] # received[c]) =>
               (hub.pc = "sending" /\ hub.current = c /\ c \in drain.members))
       /\ ((connected_clients' \ connected_clients # {}) => (received' = received))
       /\ ((new_data_available /\ ~new_data_available' /\ connected_clients = {})
              => (received' = received /\ hub'.pc = "waiting"))]_vars

(***************************************************************************)
(* Properties of the notification handlers.                                *)
(***************************************************************************)
\* C16: a notification, whether its data callback returns or raises, is
\* counted and leaves the connection state, the client, the subscription,
\* the tasks and the position of run() as they were: a supervisor that was
\* CONNECTED is still CONNECTED and goes on taking notifications.
C16_NotificationNeverTearsDown ==
    [][stats'.total_data_received # stats.total_data_received =>
         /\ stats'.total_data_received = stats.total_data_received + 1
         /\ UNCHANGED <<state, client, subscribed, tasks, pc, should_stop>>
         /\ stats'.total_disconnections = stats.total_disconnections]_vars

\* CONNECTED, after a notification whose callback raised and a later one
\* that was handled.
C16_Witness ==
    /\ state = "CONNECTED"
    /\ subscribed
    /\ stats.total_data_received = 2
    /\ cycle_log = <<"subscribe_ok", "start_cmd", "connected",
                     "callback_error", "notified">>

\* Where the wire format's parts lie in a payload: the first "N:", the
\* first ":" after it, the first "\r" at or after that ":" (0: absent).
FirstAt(data, from, bytes) ==
    LET hits == {i \in from..(Len(data) - Len(bytes) + 1) :
                    SubSeq(data, i, i + Len(bytes) - 1) = bytes}
    IN IF hits = {} THEN 0 ELSE CHOOSE i \in hits : \A j \in hits : i <= j
StartAt(data) == FirstAt(data, 1, Ascii(<<"N", ":">>))
SeparatorAt(data) ==
    IF StartAt(data) = 0 THEN 0 ELSE FirstAt(data, StartAt(data) + 2, Ascii(<<":">>))
EndAt(data) ==
    IF SeparatorAt(data) = 0 THEN 0 ELSE FirstAt(data, SeparatorAt(data), Ascii(<<"\r">>))
MissingPart(data) ==
    StartAt(data) = 0 \/ SeparatorAt(data) = 0 \/ EndAt(data) = 0

\* C17: a notification whose payload lacks the "N:" marker, the separator
\* after it or the terminator "\r" leaves the latest reading and the
\* new-data event as they were.
C17_IncompleteFrameIsNoFrame ==
    [][(notification' # notification /\ MissingPart(notification'.data)) =>
         UNCHANGED <<latest_angles, new_data_available>>]_vars

\* C18: a notification whose payload is garbage bytes followed by the frame
\* N:<y>:<x>\r makes (y/100, x/100) the latest reading and sets the event.
C18_GarbagePrefixTolerated ==
    [][\A g \in Garbage : \A y, x \in FrameValues :
         (notification' # notification /\ notification'.data = g \o Frame(y, x)) =>
             /\ latest_angles'.y = Div100(y)
             /\ latest_angles'.x = Div100(x)
             /\ new_data_available']_vars

\* C19: a notification either leaves y, x and the event all unchanged, or
\* stores the two integers written in its payload, both of them, and sets
\* the event.
C19_ReadingWrittenWhole ==
    [][notification' # notification =>
         \/ UNCHANGED <<latest_angles, new_data_available>>
         \/ \E p \in ParserInputs :
              /\ p.frame
              /\ p.data = notification'.data
              /\ latest_angles' = [latest_angles EXCEPT !.y = Div100(p.y),
                                                        !.x = Div100(p.x)]
              /\ new_data_available']_vars
=============================================================================
